---- MODULE Spec2Model ----
(***************************************************************************)
(* State-machine model of the notes application (anandvip/va-notes2025).   *)
(*                                                                         *)
(* The repository holds several near-identical builds of the same app.     *)
(* Two of them are modelled, selected by the variable `variant`:           *)
(*   "app"    src/app.js               (DatabaseService + NotesApp)        *)
(*   "legacy" src/unnamed/part_002     (NotesApp with restoreVersion and   *)
(*                                      previewVersion methods)            *)
(*                                                                         *)
(* The text that follows the class in part_002 (a truncated second copy of  *)
(* restoreVersion) is not modelled.                                        *)
(*                                                                         *)
(* Time is a discrete clock `now`; a handler runs to completion at one     *)
(* clock value, so all clock reads inside one handler agree.  Store        *)
(* requests (IndexedDB put / delete / getAll) are queued per object store  *)
(* and complete later, in issue order, each with success or failure.       *)
(***************************************************************************)
EXTENDS Integers, Sequences, FiniteSets, TLC

VARIABLES
  variant,             \* which build is running: "app" or "legacy"
  now,                 \* the clock (Date.now()), in ticks
  versioningInterval,  \* this.versioningInterval, in ticks
  db,                  \* this.db: "opening" (null), "open", "failed" (null for ever)
  listeners,           \* app.js: addEventListeners() has run
  notes,               \* this.notes: sequence of note records
  projects,            \* this.projects: sequence of project records
  tags,                \* this.tags: the application-wide Set of tags
  currentProject,      \* this.currentProject
  storeNotes,          \* object store 'notes': set of records, keyed by id
  storeProjects,       \* object store 'projects': set of records, keyed by id
  qNotes,              \* requests in flight on store 'notes', oldest first
  qProjects,           \* requests in flight on store 'projects', oldest first
  cascade,             \* deleteProject calls whose note deletes are in flight
  editor,              \* the note-content element being typed in and its debounce timer
  ops,                 \* number of user operations performed so far
  last                 \* the operation that produced this state (history)

vars == <<variant, now, versioningInterval, db, listeners, notes, projects, tags,
          currentProject, storeNotes, storeProjects, qNotes, qProjects, cascade,
          editor, ops, last>>

----------------------------------------------------------------------------
(* Bounds of the model *)

MaxTime == 3        \* the clock runs from 1 to MaxTime
MaxOps == 3         \* user operations per run

----------------------------------------------------------------------------
(* Values *)

\* this.currentProject = null, note.projectId = null
Null == 0

\* Ticks per second: toLocaleString() keeps whole seconds only.
TicksPerSecond == 2

\* Values the version-frequency control can set (0 disables versioning).
Intervals == {0, 2}

\* Delay of the content debounce of src/app.js, in milliseconds
DebounceMs == 750

\* Default interval set by the constructor (5000 ms in the source).
DefaultInterval == 2

\* Raw content strings handed to updateNote by the editor.
RawContents == {"a", "#T", "a<script></script>"}

\* (title, content) pairs createNote is called with; the first is its default
CreateArgs == {<<"New Note", "">>, <<"T", "a">>}

\* Names typed into the add-project prompt
ProjectNames == {"P", " P", " "}

Variants == {"app", "legacy"}

----------------------------------------------------------------------------
(* Pure helpers *)

Last(s) == s[Len(s)]

Front(s) == SubSeq(s, 1, Len(s) - 1)

\* Variant of the lookup that falls back to the first element
FindIndexOrFirst(s, id) ==
  IF \E i \in 1..Len(s) : s[i].id = id
  THEN CHOOSE i \in 1..Len(s) : s[i].id = id /\ \A j \in 1..(i-1) : s[j].id # id
  ELSE IF Len(s) > 0 THEN 1 ELSE 0

\* Array.prototype.findIndex / find: first position whose id matches, 0 if none
FindIndex(s, id) ==
  IF \E i \in 1..Len(s) : s[i].id = id
  THEN CHOOSE i \in 1..Len(s) : s[i].id = id /\ \A j \in 1..(i-1) : s[j].id # id
  ELSE 0

\* Variant of includes that never finds the value
IncludesNever(s, x) == FALSE

\* Array.prototype.includes
Includes(s, x) == \E i \in 1..Len(s) : s[i] = x

Range(s) == {s[i] : i \in 1..Len(s)}

\* new Date().toISOString() followed by new Date(str).getTime(): exact to the tick
ISOString(t) == t

\* new Date().toLocaleString(): the string carries whole seconds, no fraction
LocaleString(t) == t - (t % TicksPerSecond)

\* The date string a build stamps on notes and versions at clock value t
DateString(v, t) == IF v = "app" THEN ISOString(t) ELSE LocaleString(t)

\* new Date(dateString).getTime(): the instant the stored string denotes
ParseDate(d) == d

----------------------------------------------------------------------------
(* Records *)

Version(c, d) == [content |-> c, date |-> d]

\* A note as held in memory and in the store.  hasVersions is FALSE for a stored
\* record of the older schema, which has no versions property.
Note(id, title, content, projectId, date, tgs, versions) ==
  [id |-> id, title |-> title, content |-> content, projectId |-> projectId,
   date |-> date, tags |-> tgs, versions |-> versions, hasVersions |-> TRUE]

Project(id, name, color) == [id |-> id, name |-> name, color |-> color]

\* Positions of this.projectColors
Palette == 1..8

----------------------------------------------------------------------------
(* Content helpers of src/app.js *)

\* sanitizeHtml: script elements are removed, other markup is kept
sanitizeHtml(html) == IF html = "a<script></script>" THEN "a" ELSE html

\* text.match(/#([\w-]+)/g): the hashtags of the text, in order
Matches(content) ==
  CASE content = "#T" -> <<"#T">>
    [] content = "#T #t" -> <<"#T", "#t">>
    [] OTHER -> <<>>

\* tag.substring(1).toLowerCase()
TagOf(match) ==
  CASE match = "#T" -> "t"
    [] match = "#t" -> "t"
    [] OTHER -> match

\* [...new Set(array)]: the first occurrence of every value, in order
RECURSIVE Unique(_)
Unique(s) ==
  IF s = <<>> THEN <<>>
  ELSE LET front == Unique(SubSeq(s, 1, Len(s) - 1))
           x     == s[Len(s)]
       IN IF \E k \in 1..Len(front) : front[k] = x THEN front ELSE Append(front, x)

\* extractTags: the distinct lower-cased hashtags of the text
extractTags(content) ==
  LET matches == Matches(content)
  IN Unique([k \in 1..Len(matches) |-> TagOf(matches[k])])

----------------------------------------------------------------------------
(* Versioning engine: the body of updateNote's "content changed" branch *)

\* Variant of the guard that versions whatever the interval is
NeedsVersioningAlways(field, value, oldValue, interval) ==
  field = "content" /\ value # oldValue

\* Guard of the branch: content field, value changed, versioning enabled
NeedsVersioning(field, value, oldValue, interval) ==
  field = "content" /\ value # oldValue /\ interval > 0

\* Variant of the comparison that coalesces on the boundary
ShouldAppendStrict(timeSinceLastVersion, interval) == timeSinceLastVersion > interval

\* timeSinceLastVersion >= this.versioningInterval
ShouldAppend(timeSinceLastVersion, interval) == timeSinceLastVersion >= interval

\* Variant of the branch that appends on every change
ApplyVersioningAppend(versions, value, dateStr, t, interval) ==
  Append(versions, Version(value, dateStr))

\* Variant of the branch that starts the history over with the new snapshot
ApplyVersioningReset(versions, value, dateStr, t, interval) ==
  <<Version(value, dateStr)>>

\* The versions array after the branch ran at clock value t, stamping dateStr
ApplyVersioning(versions, value, dateStr, t, interval) ==
  IF versions = <<>>
  THEN <<Version(value, dateStr)>>
  ELSE LET lastVersion == Last(versions)
           timeSinceLastVersion == t - ParseDate(lastVersion.date)
       IN IF ShouldAppend(timeSinceLastVersion, interval)
          THEN Append(versions, Version(value, dateStr))
          ELSE [versions EXCEPT ![Len(versions)] = Version(value, dateStr)]

\* The content value updateNote writes into the note for a raw argument
EffectiveValue(v, field, value) ==
  IF v = "app" /\ field = "content" THEN sanitizeHtml(value) ELSE value

\* Variant of updateNote (app.js) that snapshots the raw, unsanitized value
UpdateNoteAppRaw(note, field, value, t, interval) ==
  LET v  == IF field = "content" THEN sanitizeHtml(value) ELSE value
      n1 == [note EXCEPT ![field] = v, !.date = ISOString(t)]
  IN IF NeedsVersioning(field, v, note[field], interval)
     THEN [n1 EXCEPT !.versions = ApplyVersioning(note.versions, value, n1.date, t, interval)]
     ELSE n1

\* Variant of updateNote (app.js) that adds the extracted tags to those the
\* note has
UpdateNoteAppMerge(note, field, value, t, interval) ==
  LET v        == IF field = "content" THEN sanitizeHtml(value) ELSE value
      oldValue == note[field]
      n1 == [note EXCEPT ![field] = v, !.date = ISOString(t)]
      n2 == IF field = "content"
            THEN [n1 EXCEPT !.tags = Unique(note.tags \o extractTags(v))] ELSE n1
      arr == IF n2.hasVersions THEN n2.versions ELSE <<>>
  IN IF NeedsVersioning(field, v, oldValue, interval)
     THEN [n2 EXCEPT !.versions = ApplyVersioning(arr, v, n2.date, t, interval),
                     !.hasVersions = TRUE]
     ELSE n2

\* Variant of updateNote (app.js) that re-extracts the tags for every field
UpdateNoteAppRetag(note, field, value, t, interval) ==
  LET v        == IF field = "content" THEN sanitizeHtml(value) ELSE value
      oldValue == note[field]
      n1 == [note EXCEPT ![field] = v, !.date = ISOString(t)]
      n2 == [n1 EXCEPT !.tags = extractTags(n1.content)]
      arr == IF n2.hasVersions THEN n2.versions ELSE <<>>
  IN IF NeedsVersioning(field, v, oldValue, interval)
     THEN [n2 EXCEPT !.versions = ApplyVersioning(arr, v, n2.date, t, interval),
                     !.hasVersions = TRUE]
     ELSE n2

\* updateNote of src/app.js applied to the note found: the copy that replaces it
UpdateNoteApp(note, field, value, t, interval) ==
  LET v        == IF field = "content" THEN sanitizeHtml(value) ELSE value
      oldValue == note[field]
      n1 == [note EXCEPT ![field] = v, !.date = ISOString(t)]
      n2 == IF field = "content" THEN [n1 EXCEPT !.tags = extractTags(v)] ELSE n1
      arr == IF n2.hasVersions THEN n2.versions ELSE <<>>
  IN IF NeedsVersioning(field, v, oldValue, interval)
     THEN [n2 EXCEPT !.versions = ApplyVersioning(arr, v, n2.date, t, interval),
                     !.hasVersions = TRUE]
     ELSE n2

\* updateNote of part_002 applied to the note found (mutated in place)
UpdateNoteLegacy(note, field, value, t, interval) ==
  LET oldContent == note.content
      n1 == [note EXCEPT ![field] = value, !.date = LocaleString(t)]
  IN IF NeedsVersioning(field, value, oldContent, interval)
     THEN [n1 EXCEPT !.versions =
             ApplyVersioning(n1.versions, value, LocaleString(t), t, interval)]
     ELSE n1

\* Variant of updateNote that returns early when the value is unchanged
UpdatedNoteEarlyReturn(v, note, field, value, t, interval) ==
  IF EffectiveValue(v, field, value) = note[field] THEN note
  ELSE IF v = "app" THEN UpdateNoteApp(note, field, value, t, interval)
  ELSE UpdateNoteLegacy(note, field, value, t, interval)

\* updateNote of the running build
UpdatedNote(v, note, field, value, t, interval) ==
  IF v = "app" THEN UpdateNoteApp(note, field, value, t, interval)
  ELSE UpdateNoteLegacy(note, field, value, t, interval)

\* restoreVersion of part_002 on the note found.  versionIndex is the
\* JavaScript (0-based) index.  The current content is pushed first; reading
\* .content of an undefined versionToRestore then throws.
ValidIndex(note, versionIndex) ==
  versionIndex >= 0 /\ versionIndex < Len(note.versions)

RestorePushed(note, t) ==
  [note EXCEPT !.versions = Append(@, Version(note.content, LocaleString(t)))]

RestoreVersionNote(note, versionIndex, t) ==
  LET pushed == RestorePushed(note, t)
  IN IF ValidIndex(note, versionIndex)
     THEN [pushed EXCEPT !.content = note.versions[versionIndex + 1].content,
                         !.date = LocaleString(t)]
     ELSE pushed

\* Variant of previewVersion that always shows the latest snapshot
PreviewResultLatest(note, versionIndex) ==
  IF ValidIndex(note, versionIndex) THEN <<Last(note.versions).content>> ELSE <<>>

\* previewVersion of part_002: the content shown, or no preview at all
PreviewResult(note, versionIndex) ==
  IF ValidIndex(note, versionIndex)
  THEN <<note.versions[versionIndex + 1].content>>
  ELSE <<>>

\* Variant of the load that leaves records as stored
BackfillNone(rec) == rec

\* Variant of the load that synthesizes the versions of every record
BackfillAlways(rec) ==
  [rec EXCEPT !.versions = <<Version(rec.content, rec.date)>>, !.hasVersions = TRUE]

\* loadData / loadDataFromDB: a record without a versions array gets one
Backfill(rec) ==
  IF rec.hasVersions THEN rec
  ELSE [rec EXCEPT !.versions = <<Version(rec.content, rec.date)>>,
                   !.hasVersions = TRUE]

\* updateTags: the union of the tags of the notes given
AllTags(ns) == UNION {Range(ns[i].tags) : i \in 1..Len(ns)}

----------------------------------------------------------------------------
(* The store *)

\* Variant of put that keeps the record already stored under the key
StorePutIfAbsent(S, rec) == IF \E r \in S : r.id = rec.id THEN S ELSE S \cup {rec}

\* objectStore.put: insert, or overwrite the record with the same key
StorePut(S, rec) == {r \in S : r.id # rec.id} \cup {rec}

\* Variant of delete that leaves the store as it is
StoreDeleteNone(S, key) == S

\* objectStore.delete: remove the record with that key, if any
StoreDelete(S, key) == {r \in S : r.id # key}

\* objectStore.getAll: the records in key order
RECURSIVE GetAll(_)
GetAll(S) ==
  IF S = {} THEN <<>>
  ELSE LET m == CHOOSE r \in S : \A o \in S : r.id <= o.id
       IN <<m>> \o GetAll(S \ {m})

\* A request in flight: kind is "put", "delete" or "getAll"; cont names the
\* promise callbacks that run when it settles; pid is the project a cascade
\* delete belongs to.
Req(kind, rec, key, cont, pid) ==
  [kind |-> kind, rec |-> rec, key |-> key, cont |-> cont, pid |-> pid]

\* A record of the older schema, left in the store by an earlier build
OldNote ==
  [id |-> 0, title |-> "T", content |-> "a", projectId |-> Null, date |-> 0,
   tags |-> <<"u">>, versions |-> <<>>, hasVersions |-> FALSE]

InitialStores == {{}, {OldNote}}

\* A project saved by an earlier session, and a note created inside it
OldProject == Project(0 - 1, "P", 1)

ProjectNote == Note(0, "T", "a", OldProject.id, 0, <<>>, <<Version("a", 0)>>)

----------------------------------------------------------------------------
(* History: what the step that produced the state did.  For a step on a     *)
(* note found in memory, idx is its position, old its content before the    *)
(* step, n the number of versions before and since the clock time elapsed   *)
(* since the date of its last version.                                      *)

Hist(op, id, idx, field, val, vidx, old, n, since, out) ==
  [op |-> op, id |-> id, idx |-> idx, field |-> field, val |-> val,
   vidx |-> vidx, old |-> old, n |-> n, since |-> since, out |-> out]

Idle(op) == Hist(op, 0, 0, "", "", 0, "", 0, 0, "")

\* A step that names an id and touches no note
OnId(op, id, field, out) == Hist(op, id, 0, field, "", 0, "", 0, 0, out)

\* Date.now() - new Date(lastVersion.date).getTime() at clock value t
TimeSince(note, t) ==
  IF note.versions = <<>> THEN 0 ELSE t - ParseDate(Last(note.versions).date)

\* A step on the note at position idx
OnNote(op, idx, field, val, vidx, out) ==
  Hist(op, notes[idx].id, idx, field, val, vidx, notes[idx].content,
       Len(notes[idx].versions), TimeSince(notes[idx], now), out)

----------------------------------------------------------------------------
(* Initial state: the constructor has run, indexedDB.open is pending *)

\* No content element has been typed in
NoEditor ==
  [id |-> Null, text |-> "", since |-> 0, delay |-> 0,
   armed |-> FALSE, focused |-> FALSE, saved |-> FALSE]

\* Everything but the content of the two object stores
Boot ==
  /\ variant \in Variants
  /\ now = 1
  /\ versioningInterval = DefaultInterval
  /\ db = "opening"
  /\ listeners = FALSE
  /\ notes = <<>>
  /\ projects = <<>>
  /\ tags = {}
  /\ currentProject = Null
  /\ qNotes = <<>>
  /\ qProjects = <<>>
  /\ cascade = {}
  /\ editor = NoEditor
  /\ ops = 0
  /\ last = Idle("init")

\* First visit, or a store an earlier build left one note in
Init ==
  /\ Boot
  /\ storeNotes \in InitialStores
  /\ storeProjects = {}

\* A returning user: the store holds one project with one note in it
InitProjects ==
  /\ Boot
  /\ storeNotes = {ProjectNote}
  /\ storeProjects = {OldProject}

\* A note saved by an earlier session of this build, with two versions
SavedNote ==
  Note(0 - 2, "T", "b", Null, 0, <<>>, <<Version("a", 0), Version("b", 0)>>)

\* A first load finds any of the older records in the store
InitLoad ==
  /\ Boot
  /\ storeNotes \in SUBSET {OldNote, SavedNote}
  /\ storeProjects = {}

\* User operations are reachable once the handlers are attached: app.js attaches
\* them at the end of loadData, part_002 in the constructor.
Ready == variant = "legacy" \/ listeners

\* A store call made while this.db is null rejects at once; otherwise the
\* request joins the queue of its object store.
Issue(q, req) == IF db = "open" THEN Append(q, req) ELSE q

Issued == IF db = "open" THEN "issued" ELSE "rejected"

\* Every user operation counts against the budget of the run
Spend == ops < MaxOps /\ ops' = ops + 1

----------------------------------------------------------------------------
(* Environment *)

Tick ==
  /\ now < MaxTime
  /\ now' = now + 1
  /\ last' = Idle("tick")
  /\ UNCHANGED <<ops, editor, variant, versioningInterval, db, listeners, notes, projects, tags,
                 currentProject, storeNotes, storeProjects, qNotes, qProjects, cascade>>

\* indexedDB.open settles: request.onsuccess or request.onerror
OpenDB(ok) ==
  /\ db = "opening"
  /\ db' = IF ok THEN "open" ELSE "failed"
  /\ qNotes' = IF ok THEN Append(qNotes, Req("getAll", <<>>, 0, "loadNotes", Null))
               ELSE qNotes
  /\ qProjects' = IF ok /\ variant = "legacy"
                  THEN Append(qProjects, Req("getAll", <<>>, 0, "loadProjects", Null))
                  ELSE qProjects
  /\ last' = Idle(IF ok THEN "open" ELSE "openFailed")
  /\ UNCHANGED <<ops, editor, variant, now, versioningInterval, listeners, notes, projects, tags,
                 currentProject, storeNotes, storeProjects, cascade>>

updateVersioningInterval(value) ==
  /\ Ready
  /\ value # versioningInterval
  /\ versioningInterval' = value
  /\ last' = Idle("setInterval")
  /\ Spend
  /\ UNCHANGED <<editor, variant, now, db, listeners, notes, projects, tags,
                 currentProject, storeNotes, storeProjects, qNotes, qProjects, cascade>>

----------------------------------------------------------------------------
(* Note operations *)

\* Variant of createNote that always uses the default title
NewNoteDefaultTitle(v, title, content, projectId, t) ==
  Note(t, "New Note", content, projectId, DateString(v, t), <<>>,
       <<Version(content, DateString(v, t))>>)

\* The note object createNote builds at clock value t
NewNote(v, title, content, projectId, t) ==
  Note(t, title, content, projectId, DateString(v, t), <<>>,
       <<Version(content, DateString(v, t))>>)

createNote(title, content) ==
  LET note == NewNote(variant, title, content, currentProject, now)
  IN /\ Ready
     /\ notes' = IF variant = "app" THEN <<note>> \o notes ELSE Append(notes, note)
     /\ qNotes' = Issue(qNotes, Req("put", <<note>>, note.id, "createNote", Null))
     /\ last' = Hist("createNote", note.id, IF variant = "app" THEN 1 ELSE Len(notes) + 1,
                     "", content, 0, "", 0, 0, Issued)
     /\ Spend
     /\ UNCHANGED <<editor, variant, now, versioningInterval, db, listeners, projects, tags,
                    currentProject, storeNotes, storeProjects, qProjects, cascade>>

\* The body of updateNote(id, field, value), whoever calls it
updateNoteBody(id, field, value) ==
  LET i    == FindIndex(notes, id)
      note == UpdatedNote(variant, notes[i], field, value, now, versioningInterval)
  IN /\ Ready
     /\ IF i = 0
        THEN /\ last' = OnId("updateNote", id, field, "notFound")
             /\ UNCHANGED <<notes, tags, qNotes>>
        ELSE /\ notes' = [notes EXCEPT ![i] = note]
             \* app.js calls updateTags() before the copy is stored in this.notes
             /\ tags' = IF variant = "app" /\ field = "content" THEN AllTags(notes) ELSE tags
             /\ qNotes' = Issue(qNotes, Req("put", <<note>>, note.id, "updateNote", Null))
             /\ last' = OnNote("updateNote", i, field,
                               EffectiveValue(variant, field, value), 0, Issued)
     /\ UNCHANGED <<variant, now, versioningInterval, db, listeners, projects,
                    currentProject, storeNotes, storeProjects, qProjects, cascade>>

\* updateNote called by a handler other than those of the content element
updateNote(id, field, value) ==
  /\ updateNoteBody(id, field, value)
  /\ Spend
  /\ UNCHANGED editor

addTag(id, tag) ==
  LET i    == FindIndex(notes, id)
      note == [notes[i] EXCEPT !.tags = Append(@, tag)]
  IN /\ Ready
     /\ IF i = 0
        THEN /\ last' = OnId("addTag", id, tag, "notFound")
             /\ UNCHANGED <<notes, tags, qNotes>>
        ELSE IF Includes(notes[i].tags, tag)
        THEN /\ last' = OnNote("addTag", i, "", tag, 0, "present")
             /\ UNCHANGED <<notes, tags, qNotes>>
        ELSE /\ notes' = [notes EXCEPT ![i] = note]
             /\ tags' = tags \cup {tag}
             /\ qNotes' = Issue(qNotes, Req("put", <<note>>, note.id, "addTag", Null))
             /\ last' = OnNote("addTag", i, "", tag, 0, Issued)
     /\ Spend
     /\ UNCHANGED <<editor, variant, now, versioningInterval, db, listeners, projects,
                    currentProject, storeNotes, storeProjects, qProjects, cascade>>

removeTag(id, tag) ==
  LET i    == FindIndex(notes, id)
      note == [notes[i] EXCEPT !.tags = SelectSeq(@, LAMBDA t : t # tag)]
  IN /\ Ready
     /\ IF i = 0
        THEN /\ last' = OnId("removeTag", id, tag, "notFound")
             /\ UNCHANGED <<notes, qNotes>>
        ELSE /\ notes' = [notes EXCEPT ![i] = note]
             /\ qNotes' = Issue(qNotes, Req("put", <<note>>, note.id, "removeTag", Null))
             /\ last' = OnNote("removeTag", i, "", tag, 0, Issued)
     /\ Spend
     /\ UNCHANGED <<editor, variant, now, versioningInterval, db, listeners, projects, tags,
                    currentProject, storeNotes, storeProjects, qProjects, cascade>>

\* deleteNote only issues the store delete; memory changes when it succeeds
deleteNote(id) ==
  /\ Ready
  /\ qNotes' = Issue(qNotes, Req("delete", <<>>, id, "deleteNote", Null))
  /\ last' = OnId("deleteNote", id, "", Issued)
  /\ Spend
  /\ UNCHANGED <<editor, variant, now, versioningInterval, db, listeners, notes, projects, tags,
                 currentProject, storeNotes, storeProjects, qProjects, cascade>>

----------------------------------------------------------------------------
(* The content element of a note: input, debounce timer, blur *)

\* The delay handed to setTimeout, in ticks: 750 ms in src/app.js,
\* this.versioningInterval in part_002
DebounceDelay(v, interval) ==
  IF v = "app" THEN (DebounceMs * TicksPerSecond) \div 1000 ELSE interval

\* An input event on the content element of note id, which now reads c:
\* clearTimeout, then setTimeout
input(id, c) ==
  /\ Ready
  /\ FindIndex(notes, id) # 0
  /\ (editor.armed \/ editor.focused) => editor.id = id
  /\ editor' = [id |-> id, text |-> c, since |-> now,
                delay |-> DebounceDelay(variant, versioningInterval),
                armed |-> TRUE, focused |-> TRUE, saved |-> FALSE]
  /\ last' = OnId("input", id, "content", "")
  /\ Spend
  /\ UNCHANGED <<variant, now, versioningInterval, db, listeners, notes, projects, tags,
                 currentProject, storeNotes, storeProjects, qNotes, qProjects, cascade>>

\* The debounce timer fires, no earlier than its delay after the last input
timerFires ==
  /\ editor.armed
  /\ now - editor.since >= editor.delay
  /\ updateNoteBody(editor.id, "content", editor.text)
  /\ editor' = [editor EXCEPT !.armed = FALSE, !.saved = TRUE]
  /\ UNCHANGED ops

\* The content element loses the focus.  src/app.js clears the timer and
\* calls updateNote at once; part_002 has no blur handler.
blur ==
  /\ editor.focused
  /\ IF variant = "app"
     THEN /\ updateNoteBody(editor.id, "content", editor.text)
          /\ editor' = [editor EXCEPT !.armed = FALSE, !.focused = FALSE, !.saved = TRUE]
     ELSE /\ editor' = [editor EXCEPT !.focused = FALSE]
          /\ last' = Idle("blur")
          /\ UNCHANGED <<variant, now, versioningInterval, db, listeners, notes, projects,
                         tags, currentProject, storeNotes, storeProjects, qNotes,
                         qProjects, cascade>>
  /\ UNCHANGED ops

----------------------------------------------------------------------------
(* Version history *)

\* part_002 restoreVersion(noteId, versionIndex)
restoreVersion(id, versionIndex) ==
  LET i    == FindIndex(notes, id)
      note == RestoreVersionNote(notes[i], versionIndex, now)
  IN /\ variant = "legacy"
     /\ IF i = 0
        THEN /\ last' = OnId("restoreVersion", id, "", "notFound")
             /\ UNCHANGED <<notes, qNotes>>
        ELSE /\ notes' = [notes EXCEPT ![i] = note]
             /\ IF ValidIndex(notes[i], versionIndex)
                THEN /\ qNotes' = Issue(qNotes,
                                        Req("put", <<note>>, note.id, "restoreVersion", Null))
                     /\ last' = OnNote("restoreVersion", i, "", "", versionIndex, Issued)
                \* TypeError: cannot read properties of undefined (reading 'content')
                ELSE /\ qNotes' = qNotes
                     /\ last' = OnNote("restoreVersion", i, "", "", versionIndex, "threw")
     /\ Spend
     /\ UNCHANGED <<editor, variant, now, versioningInterval, db, listeners, projects, tags,
                    currentProject, storeNotes, storeProjects, qProjects, cascade>>

\* app.js: the Restore button of showVersionHistory calls
\* updateNote(note.id, 'content', version.content) for a listed version
restoreButton(id, versionIndex) ==
  LET i    == FindIndex(notes, id)
      note == UpdatedNote(variant, notes[i], "content",
                          notes[i].versions[versionIndex + 1].content,
                          now, versioningInterval)
  IN /\ variant = "app"
     /\ listeners
     /\ i # 0
     /\ ValidIndex(notes[i], versionIndex)
     /\ notes' = [notes EXCEPT ![i] = note]
     /\ tags' = AllTags(notes)
     /\ qNotes' = Issue(qNotes, Req("put", <<note>>, note.id, "updateNote", Null))
     /\ last' = OnNote("restoreButton", i, "content", note.content, versionIndex, Issued)
     /\ Spend
     /\ UNCHANGED <<editor, variant, now, versioningInterval, db, listeners, projects,
                    currentProject, storeNotes, storeProjects, qProjects, cascade>>

\* part_002 previewVersion(noteId, versionIndex); app.js: the View button of a
\* listed version.  The preview shown is recorded in last.val.
previewVersion(id, versionIndex) ==
  LET i == FindIndex(notes, id)
  IN /\ Ready
     /\ variant = "app" => i # 0 /\ ValidIndex(notes[i], versionIndex)
     /\ last' = IF i = 0
                THEN OnId("previewVersion", id, "", "notFound")
                ELSE LET shown == PreviewResult(notes[i], versionIndex)
                     IN OnNote("previewVersion", i, "",
                               IF shown = <<>> THEN "" ELSE shown[1], versionIndex,
                               IF shown = <<>> THEN "invalidIndex" ELSE "shown")
     /\ Spend
     /\ UNCHANGED <<editor, variant, now, versioningInterval, db, listeners, notes, projects, tags,
                    currentProject, storeNotes, storeProjects, qNotes, qProjects, cascade>>

----------------------------------------------------------------------------
(* Projects *)

\* String.prototype.trim() on the names the prompt is given
Trim(name) == IF name = " " THEN "" ELSE IF name = " P" THEN "P" ELSE name

\* String.prototype.trim() leaves a non-empty string
TrimNonEmpty(name) == Trim(name) # ""

\* The name addProject receives for the text typed into the prompt: app.js
\* passes input.value on, showInputToast of part_002 passes input.value.trim()
PromptValue(v, name) == IF v = "app" THEN name ELSE Trim(name)

\* The guards in front of the body of addProject: app.js checks name.trim() in
\* the two prompt callbacks that call it; part_002 checks the trimmed value in
\* showInputToast and "if (projectName)" in addProject.
AcceptsName(v, name) ==
  IF v = "app" THEN TrimNonEmpty(name)
  ELSE TrimNonEmpty(name) /\ PromptValue(v, name) # ""

addProject(name, color) ==
  LET project == Project(now, PromptValue(variant, name), color)
  IN /\ Ready
     /\ IF ~AcceptsName(variant, name)
        THEN /\ last' = Hist("addProject", 0, 0, "", name, 0, "", 0, 0, "refused")
             /\ UNCHANGED <<projects, qProjects>>
        ELSE /\ projects' = Append(projects, project)
             /\ qProjects' = Issue(qProjects,
                                   Req("put", <<project>>, project.id, "addProject", Null))
             /\ last' = Hist("addProject", project.id, Len(projects) + 1, "", name, 0,
                             "", 0, 0, Issued)
     /\ Spend
     /\ UNCHANGED <<editor, variant, now, versioningInterval, db, listeners, notes, tags,
                    currentProject, storeNotes, storeProjects, qNotes, cascade>>

\* Click on a project header (app.js toggles, part_002 only selects)
selectProject(pid) ==
  /\ Ready
  /\ FindIndex(projects, pid) # 0
  /\ currentProject' = IF variant = "app" /\ currentProject = pid THEN Null ELSE pid
  /\ currentProject' # currentProject
  /\ last' = OnId("selectProject", pid, "", "")
  /\ Spend
  /\ UNCHANGED <<editor, variant, now, versioningInterval, db, listeners, notes, projects, tags,
                 storeNotes, storeProjects, qNotes, qProjects, cascade>>

\* Variant of deleteProject that issues the deletes of the project's notes at
\* the call, next to the delete of the project record
deleteProjectEager(pid) ==
  LET sel == SelectSeq(notes, LAMBDA n : n.projectId = pid)
  IN /\ Ready
     /\ cascade = {}
     /\ \A k \in 1..Len(qProjects) : qProjects[k].cont # "deleteProject"
     /\ qProjects' = Issue(qProjects, Req("delete", <<>>, pid, "deleteProject", pid))
     /\ qNotes' = IF db = "open"
                  THEN qNotes \o [k \in 1..Len(sel) |->
                                    Req("delete", <<>>, sel[k].id, "cascade", pid)]
                  ELSE qNotes
     /\ last' = OnId("deleteProject", pid, "", Issued)
     /\ Spend
     /\ UNCHANGED <<editor, variant, now, versioningInterval, db, listeners, notes, projects, tags,
                    currentProject, storeNotes, storeProjects, cascade>>

\* deleteProject only issues the delete of the project record; the rest runs
\* in the promise callbacks (ProjectDeleteSettled, CascadeSettled below).
\* One deleteProject call is followed at a time.
deleteProject(pid) ==
  /\ Ready
  /\ cascade = {}
  /\ \A k \in 1..Len(qProjects) : qProjects[k].cont # "deleteProject"
  /\ qProjects' = Issue(qProjects, Req("delete", <<>>, pid, "deleteProject", pid))
  /\ last' = OnId("deleteProject", pid, "", Issued)
  /\ Spend
  /\ UNCHANGED <<editor, variant, now, versioningInterval, db, listeners, notes, projects, tags,
                 currentProject, storeNotes, storeProjects, qNotes, cascade>>

----------------------------------------------------------------------------
(* Promise callbacks of deleteProject *)

\* The notes a cascade issues deletes for: this.notes.filter(projectId == id)
ProjectNotes(ns, pid) == SelectSeq(ns, LAMBDA n : n.projectId = pid)

\* Variant that resolves as soon as no delete has failed so far
CascadeResolvedEarly(c) == ~c.rejected

\* Variant of the last .then that keeps this.notes as it is
NotesKept(ns, pid) == ns

\* The last .then of deleteProject: drop the project's notes from memory
NotesAfterCascade(ns, pid) == SelectSeq(ns, LAMBDA n : n.projectId # pid)

\* this.projects.filter(project => project.id != id)
ProjectsAfterDelete(ps, pid) == SelectSeq(ps, LAMBDA p : p.id # pid)

\* The delete requests of the fan-out, one per note of the project
RECURSIVE CascadeDeletes(_, _)
CascadeDeletes(ns, pid) ==
  IF ns = <<>> THEN <<>>
  ELSE <<Req("delete", <<>>, ns[1].id, "cascade", pid)>> \o CascadeDeletes(Tail(ns), pid)

\* The ids the fan-out deletes: notesToDelete.map(note => note.id)
TargetsOf(ns) == [i \in 1..Len(ns) |-> ns[i].id]

\* State after the last callback of a cascade whose deletes all succeeded;
\* k is the number of note deletes the fan-out issued
CascadeFinish(pid, ns, k) ==
  /\ notes' = NotesAfterCascade(ns, pid)
  /\ tags' = IF variant = "app" THEN AllTags(notes') ELSE tags
  /\ currentProject' = IF variant = "legacy" /\ currentProject = pid
                       THEN Null ELSE currentProject
  /\ last' = Hist("cascadeDone", pid, 0, "", "", 0, "", k, 0, "ok")

----------------------------------------------------------------------------
(* Store requests settle: IndexedDB success / error events and the promise   *)
(* callbacks they run.  Requests on one object store settle in issue order.  *)

Settled(ok) == IF ok THEN "ok" ELSE "failed"

\* Does the success callback of a put call updateTags()?  app.js: only
\* removeTag does.  part_002: every 'noteAdded' / 'noteUpdated' observer does.
PutRefreshesTags(v, cont) ==
  IF v = "app" THEN cont = "removeTag"
  ELSE cont \in {"createNote", "updateNote", "addTag", "removeTag", "restoreVersion"}

NotePutSettled(ok) ==
  /\ qNotes # <<>>
  /\ qNotes[1].kind = "put"
  /\ qNotes' = Tail(qNotes)
  /\ storeNotes' = IF ok THEN StorePut(storeNotes, qNotes[1].rec[1]) ELSE storeNotes
  /\ tags' = IF ok /\ PutRefreshesTags(variant, qNotes[1].cont) THEN AllTags(notes) ELSE tags
  /\ last' = OnId("putSettled", qNotes[1].key, qNotes[1].cont, Settled(ok))
  /\ UNCHANGED <<ops, editor, variant, now, versioningInterval, db, listeners, notes, projects,
                 currentProject, storeProjects, qProjects, cascade>>

\* Variant of the callbacks that drops the note from memory either way
NotesAfterDeleteAlways(ns, id, ok) == SelectSeq(ns, LAMBDA n : n.id # id)

\* this.notes after the delete request settled: the .then filters, the .catch
\* only reports
NotesAfterDelete(ns, id, ok) ==
  IF ok THEN SelectSeq(ns, LAMBDA n : n.id # id) ELSE ns

NoteDeleteSettled(ok) ==
  /\ qNotes # <<>>
  /\ qNotes[1].kind = "delete"
  /\ qNotes[1].cont = "deleteNote"
  /\ qNotes' = Tail(qNotes)
  /\ storeNotes' = IF ok THEN StoreDelete(storeNotes, qNotes[1].key) ELSE storeNotes
  /\ notes' = NotesAfterDelete(notes, qNotes[1].key, ok)
  /\ tags' = IF ok THEN AllTags(notes') ELSE tags
  \* last.n: the number of notes the callback dropped from memory
  /\ last' = Hist("deleteSettled", qNotes[1].key, 0, "", "", 0, "",
                  Len(notes) - Len(notes'), 0, Settled(ok))
  /\ UNCHANGED <<ops, editor, variant, now, versioningInterval, db, listeners, projects,
                 currentProject, storeProjects, qProjects, cascade>>

\* Promise.all over the note deletes resolves: every delete succeeded
CascadeResolved(c) == c.pending = 0 /\ ~c.rejected

\* One note delete of a cascade settles.  Promise.all resolves when the last
\* one succeeded and none failed; it rejects at the first failure, and the
\* .catch reports the error then (last.n: the deletes still in flight).
CascadeSettled(ok) ==
  /\ qNotes # <<>>
  /\ qNotes[1].kind = "delete"
  /\ qNotes[1].cont = "cascade"
  /\ qNotes' = Tail(qNotes)
  /\ storeNotes' = IF ok THEN StoreDelete(storeNotes, qNotes[1].key) ELSE storeNotes
  /\ \E c \in cascade :
       LET c2 == [c EXCEPT !.pending = @ - 1, !.rejected = @ \/ ~ok]
       IN /\ c.pid = qNotes[1].pid
          /\ cascade' = IF c2.pending = 0 THEN {} ELSE {c2}
          /\ IF CascadeResolved(c2)
             THEN CascadeFinish(c.pid, notes, Len(c.targets))
             ELSE /\ last' = IF ~ok /\ ~c.rejected
                             THEN Hist("cascadeFailed", c.pid, 0, "", "", 0, "",
                                       c2.pending, 0, "failed")
                             ELSE OnId("cascadeSettled", c.pid, "", Settled(ok))
                  /\ UNCHANGED <<notes, tags, currentProject>>
  /\ UNCHANGED <<ops, editor, variant, now, versioningInterval, db, listeners, projects,
                 storeProjects, qProjects>>

\* The put requests part_002 issues for the records it backfilled
RECURSIVE BackfillPuts(_)
BackfillPuts(recs) ==
  IF recs = <<>> THEN <<>>
  ELSE (IF recs[1].hasVersions THEN <<>>
        ELSE <<Req("put", <<Backfill(recs[1])>>, recs[1].id, "backfill", Null)>>)
       \o BackfillPuts(Tail(recs))

\* this.notes after the load: every record with a versions array
LoadedNotes(recs) == [i \in 1..Len(recs) |-> Backfill(recs[i])]

\* getAll('notes') succeeded: loadData (app.js) / loadDataFromDB (part_002)
NotesLoaded ==
  LET recs == GetAll(storeNotes)
  IN /\ qNotes # <<>>
     /\ qNotes[1].kind = "getAll"
     /\ notes' = LoadedNotes(recs)
     /\ tags' = IF variant = "app" THEN tags \cup AllTags(notes') ELSE AllTags(notes')
     /\ qNotes' = IF variant = "legacy" THEN Tail(qNotes) \o BackfillPuts(recs)
                  ELSE Tail(qNotes)
     /\ qProjects' = IF variant = "app"
                     THEN Append(qProjects, Req("getAll", <<>>, 0, "loadProjects", Null))
                     ELSE qProjects
     /\ last' = Hist("notesLoaded", 0, 0, "", "", 0, "", Len(recs), 0, "ok")
     /\ UNCHANGED <<ops, editor, variant, now, versioningInterval, db, listeners, projects,
                    currentProject, storeNotes, storeProjects, cascade>>

\* getAll('projects') succeeded; app.js then attaches the event listeners
ProjectsLoaded ==
  /\ qProjects # <<>>
  /\ qProjects[1].kind = "getAll"
  /\ qProjects' = Tail(qProjects)
  /\ projects' = GetAll(storeProjects)
  /\ listeners' = (variant = "app")
  /\ last' = Idle("projectsLoaded")
  /\ UNCHANGED <<ops, editor, variant, now, versioningInterval, db, notes, tags,
                 currentProject, storeNotes, storeProjects, qNotes, cascade>>

ProjectPutSettled(ok) ==
  /\ qProjects # <<>>
  /\ qProjects[1].kind = "put"
  /\ qProjects' = Tail(qProjects)
  /\ storeProjects' = IF ok THEN StorePut(storeProjects, qProjects[1].rec[1])
                      ELSE storeProjects
  /\ last' = OnId("projectPutSettled", qProjects[1].key, "", Settled(ok))
  /\ UNCHANGED <<ops, editor, variant, now, versioningInterval, db, listeners, notes, projects, tags,
                 currentProject, storeNotes, qNotes, cascade>>

\* The delete of the project record settles: the first .then of deleteProject
ProjectDeleteSettled(ok) ==
  LET pid  == qProjects[1].key
      dels == CascadeDeletes(ProjectNotes(notes, pid), pid)
  IN /\ qProjects # <<>>
     /\ qProjects[1].kind = "delete"
     /\ qProjects' = Tail(qProjects)
     /\ IF ~ok
        THEN /\ last' = OnId("projectDeleteSettled", pid, "", "failed")
             /\ UNCHANGED <<storeProjects, projects, notes, tags, currentProject,
                            qNotes, cascade>>
        ELSE /\ storeProjects' = StoreDelete(storeProjects, pid)
             /\ projects' = ProjectsAfterDelete(projects, pid)
             /\ qNotes' = qNotes \o dels
             /\ IF dels = <<>>
                THEN /\ CascadeFinish(pid, notes, 0)
                     /\ cascade' = {}
                ELSE /\ cascade' = {[pid |-> pid, pending |-> Len(dels), rejected |-> FALSE,
                                  targets |-> TargetsOf(ProjectNotes(notes, pid))]}
                     /\ last' = OnId("projectDeleteSettled", pid, "", "ok")
                     /\ UNCHANGED <<notes, tags, currentProject>>
     /\ UNCHANGED <<ops, editor, variant, now, versioningInterval, db, listeners, storeNotes>>

----------------------------------------------------------------------------
(* Specifications *)

\* An id no note or project carries
MissingId == MaxTime + 1

\* The ids a caller passes: those of the notes in memory, and a stale one
TargetIds == {notes[i].id : i \in 1..Len(notes)} \cup {MissingId}

\* The ids of the notes on screen
NoteIds == {notes[i].id : i \in 1..Len(notes)}

\* The ids deleteNote is called with: a note on screen, a stale id, or the id
\* of the note whose delete just completed (a second click)
DeleteTargets ==
  NoteIds \cup {MissingId} \cup (IF last.op = "deleteSettled" THEN {last.id} ELSE {})

ProjectTargets == {projects[i].id : i \in 1..Len(projects)} \cup {MissingId}

\* JavaScript indexes offered to restoreVersion / previewVersion; a note has
\* at most MaxOps versions, so -1 and MaxOps are never valid
VersionIndexes == (0 - 1)..MaxOps

\* No store request is in flight: the caller awaited the previous operation
Quiet == qNotes = <<>> /\ qProjects = <<>>

\* The versioning engine: note creation and content updates, each issued
\* after the store request of the previous one settled
Next ==
  \/ Tick
  \/ OpenDB(TRUE)
  \/ \E v \in Intervals : Quiet /\ updateVersioningInterval(v)
  \/ \E a \in CreateArgs : Quiet /\ createNote(a[1], a[2])
  \/ \E id \in TargetIds, c \in RawContents : Quiet /\ updateNote(id, "content", c)
  \/ NotePutSettled(TRUE)
  \/ NotesLoaded
  \/ ProjectsLoaded

Spec == Init /\ [][Next]_vars

\* The version history: restore and preview next to content updates
NextHistory ==
  \/ Tick
  \/ OpenDB(TRUE)
  \/ Quiet /\ createNote("New Note", "")
  \/ \E id \in TargetIds : Quiet /\ updateNote(id, "content", "a")
  \/ \E id \in TargetIds, k \in VersionIndexes : Quiet /\ restoreVersion(id, k)
  \/ \E id \in TargetIds, k \in VersionIndexes : Quiet /\ restoreButton(id, k)
  \/ \E id \in TargetIds, k \in VersionIndexes : Quiet /\ previewVersion(id, k)
  \/ NotePutSettled(TRUE)
  \/ NotesLoaded
  \/ ProjectsLoaded

SpecHistory == Init /\ [][NextHistory]_vars

\* Every operation that touches a note, on a store that may fail
NextNotes ==
  \/ Tick
  \/ \E ok \in BOOLEAN : OpenDB(ok)
  \/ Quiet /\ createNote("New Note", "")
  \/ \E id \in NoteIds : Quiet /\ updateNote(id, "content", "#T")
  \/ \E id \in NoteIds : Quiet /\ updateNote(id, "title", "T")
  \/ \E id \in NoteIds : Quiet /\ addTag(id, "t")
  \/ \E id \in NoteIds : Quiet /\ removeTag(id, "t")
  \/ \E id \in NoteIds : Quiet /\ restoreVersion(id, 0)
  \/ \E id \in NoteIds : Quiet /\ restoreButton(id, 0)
  \/ \E ok \in BOOLEAN : NotePutSettled(ok)
  \/ NotesLoaded
  \/ ProjectsLoaded

SpecNotes == Init /\ [][NextNotes]_vars

\* Projects and the cascade delete, with store requests that may fail
NextProjects ==
  \/ Tick
  \/ OpenDB(TRUE)
  \/ createNote("New Note", "")
  \/ \E id \in NoteIds : Quiet /\ updateNote(id, "title", "T")
  \/ \E id \in DeleteTargets : Quiet /\ deleteNote(id)
  \/ \E n \in ProjectNames : Quiet /\ addProject(n, 1)
  \/ \E pid \in ProjectTargets : selectProject(pid)
  \/ \E pid \in ProjectTargets : deleteProject(pid)
  \/ \E ok \in BOOLEAN : NotePutSettled(ok)
  \/ \E ok \in BOOLEAN : NoteDeleteSettled(ok)
  \/ \E ok \in BOOLEAN : CascadeSettled(ok)
  \/ NotesLoaded
  \/ ProjectsLoaded
  \/ ProjectPutSettled(TRUE)
  \/ \E ok \in BOOLEAN : ProjectDeleteSettled(ok)

SpecProjects == InitProjects /\ [][NextProjects]_vars

\* The initial load over stores of both schemas, followed by edits of a title
NextLoad ==
  \/ Tick
  \/ \E ok \in BOOLEAN : OpenDB(ok)
  \/ Quiet /\ createNote("New Note", "")
  \/ \E id \in NoteIds : Quiet /\ updateNote(id, "title", "T2")
  \/ \E ok \in BOOLEAN : NotePutSettled(ok)
  \/ NotesLoaded
  \/ ProjectsLoaded

SpecLoad == InitLoad /\ [][NextLoad]_vars

\* Typing into the content element of a note
NextTyping ==
  \/ Tick
  \/ OpenDB(TRUE)
  \/ Quiet /\ createNote("New Note", "")
  \/ \E id \in NoteIds, c \in {"a", "#T"} : input(id, c)
  \/ timerFires
  \/ blur
  \/ NotePutSettled(TRUE)
  \/ NotesLoaded
  \/ ProjectsLoaded

SpecTyping == Init /\ [][NextTyping]_vars

\* The initial load has completed: no getAll is in flight
Loaded ==
  /\ db = "open"
  /\ \A k \in 1..Len(qNotes) : qNotes[k].kind # "getAll"
  /\ \A k \in 1..Len(qProjects) : qProjects[k].kind # "getAll"

\* Operations issued after the load without waiting for one another, on a
\* store that never fails
NextRace ==
  \/ Tick
  \/ OpenDB(TRUE)
  \/ Loaded /\ createNote("New Note", "")
  \/ \E id \in NoteIds : Loaded /\ updateNote(id, "title", "T")
  \/ \E id \in NoteIds : Loaded /\ addTag(id, "t")
  \/ \E id \in NoteIds : Loaded /\ deleteNote(id)
  \/ \E pid \in ProjectTargets : Loaded /\ selectProject(pid)
  \/ \E pid \in ProjectTargets : Loaded /\ deleteProject(pid)
  \/ NotePutSettled(TRUE)
  \/ NoteDeleteSettled(TRUE)
  \/ CascadeSettled(TRUE)
  \/ ProjectDeleteSettled(TRUE)
  \/ NotesLoaded
  \/ ProjectsLoaded

SpecRace == InitProjects /\ [][NextRace]_vars

\* Contents typed into a note: plain text, and the same hashtag twice
TagContents == {"a", "#T #t"}

\* Tags: hashtags in the content next to the add-tag and remove-tag controls,
\* each operation issued after the previous one completed, on a store that
\* never fails
NextTags ==
  \/ Tick
  \/ OpenDB(TRUE)
  \/ Loaded /\ Quiet /\ createNote("New Note", "")
  \/ \E id \in NoteIds, c \in TagContents : Loaded /\ Quiet /\ updateNote(id, "content", c)
  \/ \E id \in NoteIds : Loaded /\ Quiet /\ updateNote(id, "title", "T2")
  \/ \E id \in NoteIds : Loaded /\ Quiet /\ addTag(id, "t")
  \/ \E id \in NoteIds : Loaded /\ Quiet /\ removeTag(id, "t")
  \/ \E id \in NoteIds : Loaded /\ Quiet /\ deleteNote(id)
  \/ NotePutSettled(TRUE)
  \/ NoteDeleteSettled(TRUE)
  \/ NotesLoaded
  \/ ProjectsLoaded

SpecTags == Init /\ [][NextTags]_vars

----------------------------------------------------------------------------
(* Properties.  A step that acted on a note in memory records in last' the   *)
(* position of the note; the note before the step is notes[last'.idx], the   *)
(* note after it notes'[last'.idx].                                          *)

HasVersions(n) == n.hasVersions /\ Len(n.versions) >= 1

\* C1: every note in memory, and every note record handed to the store's put,
\* has a versions sequence with at least one entry
C1_VersionsNeverEmpty ==
  /\ \A i \in 1..Len(notes) : HasVersions(notes[i])
  /\ \A k \in 1..Len(qNotes) : qNotes[k].kind = "put" => HasVersions(qNotes[k].rec[1])

\* A record of the older schema was loaded and then restored and re-saved
C1_Witness ==
  /\ \E i \in 1..Len(notes) : notes[i].id = OldNote.id /\ Len(notes[i].versions) >= 2
  /\ \E k \in 1..Len(qNotes) : qNotes[k].kind = "put" /\ qNotes[k].key = OldNote.id
                               /\ qNotes[k].cont = "restoreVersion"

\* The step is updateNote(id, 'content', value) on a note found in memory
ContentUpdateStep ==
  last'.op = "updateNote" /\ last'.idx # 0 /\ last'.field = "content"

\* The step changes the content the note holds
ContentChangeStep == ContentUpdateStep /\ last'.val # notes[last'.idx].content

\* Time elapsed at the step since the date of the last version of the note
Elapsed == now - ParseDate(Last(notes[last'.idx].versions).date)

\* The snapshot a step at this instant writes for the new content
NewSnapshot == Version(last'.val, DateString(variant, now))

\* C2: interval > 0, content changed, elapsed < interval: the number of
\* versions is unchanged and the last version becomes {newContent, now}
C2_Coalesce ==
  [][(ContentChangeStep /\ versioningInterval > 0 /\ Elapsed < versioningInterval)
       => /\ Len(notes'[last'.idx].versions) = Len(notes[last'.idx].versions)
          /\ Last(notes'[last'.idx].versions) = NewSnapshot
          /\ Front(notes'[last'.idx].versions) = Front(notes[last'.idx].versions)]_vars

\* A changing update arrived inside the interval and was coalesced
C2_Witness ==
  /\ last.op = "updateNote" /\ last.idx # 0 /\ last.field = "content"
  /\ last.val # last.old
  /\ versioningInterval > 0 /\ last.since < versioningInterval
  /\ Len(notes[last.idx].versions) = last.n
  /\ Last(notes[last.idx].versions).content = last.val

\* C3: interval > 0, content changed, elapsed >= interval (the boundary
\* included): exactly one version {newContent, now} is appended and the
\* earlier ones are untouched; an update with elapsed < interval never grows
\* the versions
C3_Append ==
  [][/\ (ContentChangeStep /\ versioningInterval > 0 /\ Elapsed >= versioningInterval)
          => notes'[last'.idx].versions = Append(notes[last'.idx].versions, NewSnapshot)
     /\ (ContentUpdateStep /\ Elapsed < versioningInterval)
          => Len(notes'[last'.idx].versions) <= Len(notes[last'.idx].versions)]_vars

\* A changing update arrived exactly one interval after the last version
C3_Witness ==
  /\ last.op = "updateNote" /\ last.idx # 0 /\ last.field = "content"
  /\ last.val # last.old
  /\ versioningInterval > 0 /\ last.since = versioningInterval
  /\ Len(notes[last.idx].versions) = last.n + 1

C5_SameContentNoOp ==
  [][(ContentUpdateStep /\ last'.val = notes[last'.idx].content)
       => /\ notes'[last'.idx].versions = notes[last'.idx].versions
          /\ notes'[last'.idx].date = notes[last'.idx].date]_vars

\* C5 amended: such an update leaves content and versions as they were and
\* sets the date of the note to now
C5_SameContentTouchesDate ==
  [][(ContentUpdateStep /\ last'.val = notes[last'.idx].content)
       => /\ notes'[last'.idx].versions = notes[last'.idx].versions
          /\ notes'[last'.idx].content = notes[last'.idx].content
          /\ notes'[last'.idx].date = DateString(variant, now)]_vars

\* An update with unchanged content moved the date of the note past the date
\* of its only version
C5_Witness ==
  /\ last.op = "updateNote" /\ last.idx # 0 /\ last.field = "content"
  /\ last.val = last.old
  /\ Len(notes[last.idx].versions) = 1 /\ last.n = 1
  /\ notes[last.idx].date = DateString(variant, now)
  /\ notes[last.idx].date # notes[last.idx].versions[1].date

RestoreStep ==
  /\ last'.op \in {"restoreVersion", "restoreButton"}
  /\ last'.idx # 0
  /\ ValidIndex(notes[last'.idx], last'.vidx)

\* C7: restoring version i of n versions gives n+1 versions, the new last one
\* being {pre-restore content, now}; the content becomes that of the old
\* versions[i] and the date now, whatever the interval and the elapsed time
C7_RestoreAppends ==
  [][RestoreStep
       => /\ notes'[last'.idx].versions =
               Append(notes[last'.idx].versions,
                      Version(notes[last'.idx].content, DateString(variant, now)))
          /\ notes'[last'.idx].content = notes[last'.idx].versions[last'.vidx + 1].content
          /\ notes'[last'.idx].date = DateString(variant, now)]_vars

\* C8: restoreVersion with an invalid index reports IndexOutOfRange, throws
\* nothing and leaves the note and the store as they were
C8_InvalidIndexRejected ==
  [][(last'.op = "restoreVersion" /\ last'.idx # 0
        /\ ~ValidIndex(notes[last'.idx], last'.vidx))
       => /\ last'.out = "indexOutOfRange"
          /\ notes' = notes
          /\ qNotes' = qNotes
          /\ storeNotes' = storeNotes]_vars

\* C9: previewVersion changes no note, issues no store request, shows
\* versions[index].content for a valid index and nothing for an invalid one
C9_PreviewIsPure ==
  [][last'.op = "previewVersion"
       => /\ UNCHANGED <<notes, projects, tags, currentProject, versioningInterval,
                         storeNotes, storeProjects, qNotes, qProjects, cascade>>
          /\ last'.idx # 0 =>
               IF ValidIndex(notes[last'.idx], last'.vidx)
               THEN /\ last'.out = "shown"
                    /\ last'.val = notes[last'.idx].versions[last'.vidx + 1].content
               ELSE last'.out = "invalidIndex"]_vars

\* An older version, different from the latest one, is on screen
C9_Witness ==
  /\ last.op = "previewVersion" /\ last.idx # 0 /\ last.out = "shown"
  /\ last.vidx + 1 < Len(notes[last.idx].versions)
  /\ last.val = notes[last.idx].versions[last.vidx + 1].content
  /\ last.val # Last(notes[last.idx].versions).content

\* The note ids the cascade that finishes in this step issued deletes for
FanOut == UNION {Range(c.targets) : c \in cascade}

\* C10: at the step that finishes deleteProject(id) on a project with k notes
\* without a store failure, the project is absent from memory and store, the
\* k notes are absent from the store and no note in memory carries the id
C10_CascadeDelete ==
  [][(last'.op = "cascadeDone")
       => /\ \A i \in 1..Len(projects') : projects'[i].id # last'.id
          /\ \A r \in storeProjects' : r.id # last'.id
          /\ \A r \in storeNotes' : r.id \notin FanOut
          /\ \A i \in 1..Len(notes') : notes'[i].projectId # last'.id
          /\ Len(ProjectNotes(notes', last'.id)) = 0
          /\ last'.n >= Cardinality(FanOut)]_vars

\* A cascade over two notes finished
C10_Witness ==
  /\ last.op = "cascadeDone" /\ last.out = "ok" /\ last.n >= 2
  /\ last.id = OldProject.id
  /\ \A r \in storeNotes : r.id # ProjectNote.id

\* The step settles the last note delete a cascade was waiting for
CascadeAllSettled == cascade # {} /\ cascade' = {}

\* A delete of the cascade for project pid is still in flight in queue q
CascadePending(q, pid) ==
  \E k \in 1..Len(q) : q[k].kind = "delete" /\ q[k].cont = "cascade" /\ q[k].pid = pid

\* C11: when the store rejects one of the note deletes of a cascade, the
\* notes of the project are removed from memory all the same once the
\* cascade has settled, and the failure is reported
C11_RemovesDespiteFailure ==
  [][(CascadeAllSettled /\ \E c \in cascade : c.rejected \/ last'.out = "failed")
       => \A c \in cascade : \A i \in 1..Len(notes') : notes'[i].projectId # c.pid]_vars

\* C12 as stated: deleteProject reports the cascade complete, success or
\* failure, only when none of its note deletes is still in flight
C12_ReportsAfterAllSettled ==
  [][(last'.op \in {"cascadeDone", "cascadeFailed"})
       => ~CascadePending(qNotes', last'.id)]_vars

\* C12 amended: success is reported only when every note delete has
\* succeeded and none is in flight; a failure is reported at the first
\* rejected delete, whatever is still in flight, and removes nothing from memory
C12_SuccessAfterAllResolved ==
  [][/\ (last'.op = "cascadeDone")
          => /\ ~CascadePending(qNotes', last'.id)
             /\ cascade' = {}
             /\ \A c \in cascade : ~c.rejected
     /\ (last'.op = "cascadeFailed")
          => /\ \A c \in cascade : ~c.rejected /\ last'.n = c.pending - 1
             /\ notes' = notes]_vars

\* A failure was reported while another delete of the cascade is in flight
C12_Witness ==
  /\ last.op = "cascadeFailed" /\ last.out = "failed" /\ last.n >= 1
  /\ CascadePending(qNotes, last.id)
  /\ \E i \in 1..Len(notes) : notes[i].projectId = last.id

\* A note with this id is held in memory
InMemory(id) == \E i \in 1..Len(notes) : notes[i].id = id

\* C13 as stated: a rejected put or delete leaves the in-memory effect of the
\* operation in place (a deleted note stays removed) and is not retried
C13_NoRollback ==
  [][/\ (last'.op \in {"putSettled", "deleteSettled"} /\ last'.out = "failed")
          => notes' = notes /\ storeNotes' = storeNotes /\ qNotes' = Tail(qNotes)
     /\ (last'.op = "deleteSettled" /\ last'.out = "failed")
          => \A i \in 1..Len(notes') : notes'[i].id # last'.id]_vars

\* C13 amended: a rejected put leaves the created or updated note in memory
\* as it is; deleteNote removes the note from memory only when the store
\* delete succeeds, so after a rejected delete the note is still in memory;
\* neither is retried
C13_FailureLeavesMemory ==
  [][/\ (last'.op \in {"putSettled", "deleteSettled"} /\ last'.out = "failed")
          => /\ notes' = notes /\ storeNotes' = storeNotes
             /\ qNotes' = Tail(qNotes) /\ qProjects' = qProjects
     /\ (last'.op = "deleteSettled" /\ last'.out = "failed")
          => (InMemory(last'.id) <=> \E i \in 1..Len(notes') : notes'[i].id = last'.id)
     /\ (last'.op \in {"createNote", "updateNote"} /\ last'.out = "rejected")
          => /\ last'.idx \in 1..Len(notes') /\ notes'[last'.idx].id = last'.id
             /\ qNotes' = qNotes
             /\ last'.op = "updateNote" => notes'[last'.idx][last'.field] = last'.val
     /\ (last'.op = "deleteNote" /\ last'.out = "rejected")
          => notes' = notes /\ qNotes' = qNotes]_vars

\* The store rejected the delete of a note that is still on screen and stored
C13_Witness ==
  /\ last.op = "deleteSettled" /\ last.out = "failed"
  /\ InMemory(last.id)
  /\ \E r \in storeNotes : r.id = last.id

\* C14: once opening the store has failed, the application keeps running in
\* memory (its handlers are attached), no store request is in flight and no
\* store call is reported as issued or successful
C14_MemoryOnlyMode ==
  db = "failed"
    => /\ Ready
       /\ qNotes = <<>> /\ qProjects = <<>>
       /\ last.out \notin {"issued", "ok"}

\* C15: with every updateNote issued after the put of the previous one
\* completed, the store record of the note equals the note in memory once
\* the put of the last update completes
C15_AwaitedUpdatesPersist ==
  [][(last'.op = "putSettled" /\ last'.field = "updateNote" /\ last'.out = "ok"
        /\ qNotes' = <<>>)
       => /\ FindIndex(notes', last'.id) # 0
          /\ \E r \in storeNotes' : r = notes'[FindIndex(notes', last'.id)]
          /\ \A r \in storeNotes' :
               r.id = last'.id => r = notes'[FindIndex(notes', last'.id)]]_vars

\* The put of a later update of a note with two versions completed
C15_Witness ==
  /\ last.op = "putSettled" /\ last.field = "updateNote" /\ last.out = "ok"
  /\ qNotes = <<>> /\ ops >= 3
  /\ \E i \in 1..Len(notes) :
       /\ notes[i].id = last.id /\ notes[i] \in storeNotes
       /\ Len(notes[i].versions) >= 2 /\ notes[i].content # ""

\* C16: createNote(title, content) hands put a record with that title, that
\* content and one version {content, creation date}; once the put succeeded
\* getAll('notes') returns that record
C16_CreateRoundTrip ==
  [][/\ \A a \in CreateArgs :
          (createNote(a[1], a[2]) /\ db = "open")
            => /\ Len(qNotes') = Len(qNotes) + 1
               /\ Last(qNotes').kind = "put"
               /\ Last(qNotes').rec[1].title = a[1]
               /\ Last(qNotes').rec[1].content = a[2]
               /\ Last(qNotes').rec[1].date = DateString(variant, now)
               /\ Last(qNotes').rec[1].versions =
                    <<Version(a[2], DateString(variant, now))>>
     /\ (last'.op = "putSettled" /\ last'.field = "createNote" /\ last'.out = "ok")
          => Includes(GetAll(storeNotes'), qNotes[1].rec[1])]_vars

\* getAll returns the record of createNote("T", "a") after its put succeeded
C16_Witness ==
  /\ last.op = "putSettled" /\ last.field = "createNote" /\ last.out = "ok"
  /\ \E k \in 1..Len(GetAll(storeNotes)) :
       /\ GetAll(storeNotes)[k].id = last.id
       /\ GetAll(storeNotes)[k].title = "T"
       /\ GetAll(storeNotes)[k].content = "a"
       /\ Len(GetAll(storeNotes)[k].versions) = 1
       /\ GetAll(storeNotes)[k].versions[1].content = "a"

\* C17: no two notes in memory share an id
C17_UniqueIds ==
  \A i, j \in 1..Len(notes) : i # j => notes[i].id # notes[j].id

C19_DeleteNote ==
  [][/\ (last'.op = "deleteNote" /\ db = "open")
          => /\ qNotes' = Append(qNotes, Req("delete", <<>>, last'.id, "deleteNote", Null))
             /\ notes' = notes
     /\ (last'.op = "deleteSettled" /\ last'.out = "ok")
          => /\ notes' = SelectSeq(notes, LAMBDA n : n.id # last'.id)
             /\ storeNotes' = {r \in storeNotes : r.id # last'.id}
             /\ \A i \in 1..Len(notes') : notes'[i].id # last'.id
             /\ \A r \in storeNotes' : r.id # last'.id
     /\ (last'.op = "deleteSettled" /\ last'.out = "ok"
           /\ ~InMemory(last'.id) /\ \A r \in storeNotes : r.id # last'.id)
          => notes' = notes /\ storeNotes' = storeNotes]_vars

\* A second deleteNote of an id that was on screen succeeded and dropped nothing
C19_Witness ==
  /\ last.op = "deleteSettled" /\ last.out = "ok" /\ last.n = 0
  /\ last.id # MissingId /\ ops >= 2
  /\ ~InMemory(last.id)
  /\ \A r \in storeNotes : r.id # last.id

\* C20: addProject with an empty or whitespace-only name adds no project and
\* issues no put; with another name it adds exactly one project, with an id no
\* project in memory carries and a palette color, and puts it to the store
C20_AddProject ==
  [][\A n \in ProjectNames :
       addProject(n, 1)
         => IF Trim(n) = ""
            THEN UNCHANGED <<projects, qProjects, storeProjects>>
            ELSE /\ Len(projects') = Len(projects) + 1
                 /\ SubSeq(projects', 1, Len(projects)) = projects
                 /\ \A i \in 1..Len(projects) : projects[i].id # Last(projects').id
                 /\ Last(projects').color \in Palette
                 /\ db = "open" =>
                      qProjects' = Append(qProjects,
                        Req("put", <<Last(projects')>>, Last(projects').id, "addProject", Null))]_vars

\* The label occurs in the tags of the note
HasTag(n, tag) == \E k \in 1..Len(n.tags) : n.tags[k] = tag

\* No label occurs twice in the tags of the note
NoDuplicateTags(n) ==
  \A j, k \in 1..Len(n.tags) : n.tags[j] = n.tags[k] => j = k

\* C21: addTag with a tag the note has, and removeTag with a tag the note does
\* not have, leave the tags of the note as they are; no note in memory ever
\* carries the same label twice
C21_TagsAreASet ==
  [][/\ \A id \in NoteIds :
          LET i == FindIndex(notes, id)
          IN /\ (addTag(id, "t") /\ HasTag(notes[i], "t"))
                  => notes'[i].tags = notes[i].tags
             /\ (removeTag(id, "t") /\ ~HasTag(notes[i], "t"))
                  => notes'[i].tags = notes[i].tags
     /\ \A i \in 1..Len(notes') : NoDuplicateTags(notes'[i])]_vars

\* addTag was called with a label the note already carried
C21_Witness ==
  /\ last.op = "addTag" /\ last.out = "present"
  /\ HasTag(notes[last.idx], "t")
  /\ NoDuplicateTags(notes[last.idx])

\* C22: the initial load returns one note per stored record, in key order; a
\* record without a versions array comes back with the single entry made of
\* its content and date, a record with a versions array keeps it; the other
\* fields are those stored
C22_LoadBackfills ==
  [][NotesLoaded =>
       LET recs == GetAll(storeNotes)
       IN /\ Len(notes') = Len(recs)
          /\ \A i \in 1..Len(recs) :
               /\ notes'[i].versions =
                    (IF recs[i].hasVersions THEN recs[i].versions
                     ELSE <<[content |-> recs[i].content, date |-> recs[i].date]>>)
               /\ notes'[i].hasVersions
               /\ [notes'[i] EXCEPT !.versions = <<>>, !.hasVersions = FALSE]
                    = [recs[i] EXCEPT !.versions = <<>>, !.hasVersions = FALSE]]_vars

\* The load returned a record that was stored without versions next to one
\* stored with two
C22_Witness ==
  /\ last.op = "notesLoaded" /\ last.n = 2
  /\ Len(notes) = 2
  /\ notes[1] = SavedNote
  /\ notes[2].id = OldNote.id
  /\ notes[2].versions = <<Version(OldNote.content, OldNote.date)>>

\* C23: updateNote on the title sets the title and the date of the note, hands
\* the whole updated record to the store's put, and leaves the content, tags
\* and versions of the note, and every other note, as they were
C23_FieldUpdateFrame ==
  [][\A id \in NoteIds :
       updateNote(id, "title", "T2")
         => LET i == FindIndex(notes, id)
            IN /\ notes'[i].title = "T2"
               /\ notes'[i].date = DateString(variant, now)
               /\ notes'[i].content = notes[i].content
               /\ notes'[i].tags = notes[i].tags
               /\ notes'[i].versions = notes[i].versions
               /\ Len(notes') = Len(notes)
               /\ \A j \in 1..Len(notes) : j # i => notes'[j] = notes[j]
               /\ db = "open" =>
                    qNotes' = Append(qNotes,
                                Req("put", <<notes'[i]>>, id, "updateNote", Null))]_vars

\* The title of a note that carries a tag was updated and its put issued
C23_Witness ==
  /\ last.op = "updateNote" /\ last.field = "title" /\ last.out = "issued"
  /\ variant = "app"
  /\ notes[last.idx].title = "T2"
  /\ notes[last.idx].tags # <<>>
  /\ Len(qNotes) = 1 /\ qNotes[1].rec[1] = notes[last.idx]

\* The steps that edit the note at position last'.idx
NoteEditStep ==
  /\ last'.op \in {"updateNote", "restoreVersion", "restoreButton", "addTag", "removeTag"}
  /\ last'.idx # 0

\* The dates of the entries do not decrease from oldest to newest
DatesAscend(versions) ==
  \A k \in 1..(Len(versions) - 1) :
    ParseDate(versions[k].date) <= ParseDate(versions[k + 1].date)

\* C24: a content update, restore, tag or field update of a note never
\* shortens its versions, leaves every entry before the last one where and as
\* it was, and the dates of the entries never decrease from oldest to newest
C24_VersionsAppendOnly ==
  [][NoteEditStep =>
       LET old == notes[last'.idx].versions
           new == notes'[last'.idx].versions
       IN /\ Len(new) >= Len(old)
          /\ \A k \in 1..(Len(old) - 1) : new[k] = old[k]
          /\ DatesAscend(new)]_vars

\* A restore acted on a note with two versions and appended a third
C24_Witness ==
  /\ last.op \in {"restoreVersion", "restoreButton"}
  /\ last.n = 2
  /\ Len(notes[last.idx].versions) = 3
  /\ DatesAscend(notes[last.idx].versions)

\* The number of note deletes of cascades waiting in queue q
CascadeCount(q) ==
  Cardinality({k \in 1..Len(q) : q[k].kind = "delete" /\ q[k].cont = "cascade"})

\* C25: the deleteProject call only issues the delete of the project record;
\* deletes of the project's notes are issued only by the step in which that
\* delete succeeds, and when it fails memory and the stored notes stay as
\* they are and no note delete is issued
C25_ProjectRecordFirst ==
  [][/\ \A pid \in ProjectTargets :
          deleteProject(pid)
            => /\ UNCHANGED <<notes, projects, qNotes, storeNotes, storeProjects>>
               /\ db = "open" =>
                    qProjects' = Append(qProjects,
                                   Req("delete", <<>>, pid, "deleteProject", pid))
     /\ CascadeCount(qNotes') > CascadeCount(qNotes)
          => /\ qProjects # <<>>
             /\ qProjects[1].kind = "delete"
             /\ qProjects' = Tail(qProjects)
             /\ \A r \in storeProjects' : r.id # qProjects[1].key
             /\ \A k \in (Len(qNotes) + 1)..Len(qNotes') :
                  qNotes'[k].pid = qProjects[1].key
     /\ ProjectDeleteSettled(FALSE)
          => UNCHANGED <<notes, projects, storeNotes, storeProjects, qNotes, tags>>]_vars

\* The store rejected the delete of a project that has a note in memory
C25_Witness ==
  /\ last.op = "projectDeleteSettled" /\ last.out = "failed"
  /\ last.id = OldProject.id
  /\ \E i \in 1..Len(projects) : projects[i].id = last.id
  /\ \E i \in 1..Len(notes) : notes[i].projectId = last.id
  /\ CascadeCount(qNotes) = 0
  /\ ProjectNote \in storeNotes

\* C26: a content updateNote coming from the content element is issued only
\* when no input has arrived for the configured versioning interval, it is the
\* only one since the last input, and it carries what the element reads
C26_DebouncedByInterval ==
  [][(last'.op = "updateNote" /\ last'.field = "content")
       => /\ now - editor.since >= versioningInterval
          /\ ~editor.saved
          /\ last'.idx # 0 => last'.val = EffectiveValue(variant, "content", editor.text)]_vars

\* The ids of the note records in the store
StoredNoteIds == {r.id : r \in storeNotes}

\* C27: once every store request issued has completed, none of them having
\* failed, the store holds a record for exactly the ids of the notes in memory
C27_StoreMatchesMemory ==
  (Loaded /\ Quiet /\ cascade = {}) => StoredNoteIds = NoteIds

\* The id is null or that of a project in memory
ProjectRefValid(pid) ==
  pid = Null \/ \E i \in 1..Len(projects) : projects[i].id = pid

\* C28: once the operations issued have completed, every note in memory and
\* the current project selection refer to no project or to one in memory
C28_ProjectRefsValid ==
  (Loaded /\ Quiet /\ cascade = {})
    => /\ \A i \in 1..Len(notes) : ProjectRefValid(notes[i].projectId)
       /\ ProjectRefValid(currentProject)

\* C29: once an operation and its store request have completed, the
\* application-wide tag set is the union of the tags of the notes in memory
C29_TagsAreUnion ==
  (Loaded /\ Quiet) => tags = AllTags(notes)

\* C30: in src/app.js a content update, of changed or unchanged content,
\* leaves the note with exactly the distinct lower-cased hashtags of the new
\* content, whatever tags it had; an update of the title leaves the tags alone
C30_ContentUpdateReplacesTags ==
  [][variant = "app" =>
       \A id \in NoteIds :
         LET i == FindIndex(notes, id)
         IN /\ updateNote(id, "content", "a") => notes'[i].tags = <<>>
            /\ updateNote(id, "content", "#T #t") => notes'[i].tags = <<"t">>
            /\ updateNote(id, "title", "T2") => notes'[i].tags = notes[i].tags]_vars

\* A content update with the content the note already had dropped the tag
\* that addTag had given it
C30_Witness ==
  /\ variant = "app"
  /\ last.op = "updateNote" /\ last.field = "content"
  /\ last.val = "a" /\ last.old = "a"
  /\ Len(notes) = 1
  /\ notes[1].tags = <<>>
  /\ "t" \in tags

====
